---- MODULE Spec2Model ----
(***************************************************************************)
(* A model of luvit's TLS connection object (src/luv_tls_conn.c): two      *)
(* tls_conn_t objects, a client and a server, driven by a caller that      *)
(* moves ciphertext between them through the memory BIOs.                  *)
(***************************************************************************)
EXTENDS Integers, Sequences, FiniteSets, TLC

VARIABLES tc, engine, wire, last, crashed, finalized, budget, sentq

vars == <<tc, engine, wire, last, crashed, finalized, budget, sentq>>

(***************************************************************************)
(* Bounds of the model.                                                    *)
(***************************************************************************)
MaxBuf == 4
MaxMsg == 2
MaxFeed == 1
MaxEvents == 1
MaxClose == 2
MaxVerify == 29
MaxPattern == 3

(***************************************************************************)
(* Program constants.                                                      *)
(***************************************************************************)
SSL_ERROR_NONE == 0
SSL_ERROR_SSL == 1
SSL_ERROR_WANT_READ == 2
SSL_ERROR_WANT_WRITE == 3
SSL_ERROR_SYSCALL == 5
SSL_ERROR_ZERO_RETURN == 6

SSL_VERIFY_NONE == 0
SSL_VERIFY_PEER == 1
SSL_VERIFY_FAIL_IF_NO_PEER_CERT == 2

X509_V_OK == 0
X509_V_ERR_CERT_SIGNATURE_FAILURE == 7
X509_V_ERR_CERT_HAS_EXPIRED == 10
X509_V_ERR_CERT_UNTRUSTED == 27
X509_V_ERR_UNABLE_TO_GET_ISSUER_CERT == 2
X509_V_ERR_UNABLE_TO_GET_CRL == 3
X509_V_ERR_UNABLE_TO_DECRYPT_CERT_SIGNATURE == 4
X509_V_ERR_UNABLE_TO_DECRYPT_CRL_SIGNATURE == 5
X509_V_ERR_UNABLE_TO_DECODE_ISSUER_PUBLIC_KEY == 6
X509_V_ERR_CRL_SIGNATURE_FAILURE == 8
X509_V_ERR_CERT_NOT_YET_VALID == 9
X509_V_ERR_CRL_NOT_YET_VALID == 11
X509_V_ERR_CRL_HAS_EXPIRED == 12
X509_V_ERR_ERROR_IN_CERT_NOT_BEFORE_FIELD == 13
X509_V_ERR_ERROR_IN_CERT_NOT_AFTER_FIELD == 14
X509_V_ERR_ERROR_IN_CRL_LAST_UPDATE_FIELD == 15
X509_V_ERR_ERROR_IN_CRL_NEXT_UPDATE_FIELD == 16
X509_V_ERR_OUT_OF_MEM == 17
X509_V_ERR_DEPTH_ZERO_SELF_SIGNED_CERT == 18
X509_V_ERR_SELF_SIGNED_CERT_IN_CHAIN == 19
X509_V_ERR_UNABLE_TO_GET_ISSUER_CERT_LOCALLY == 20
X509_V_ERR_UNABLE_TO_VERIFY_LEAF_SIGNATURE == 21
X509_V_ERR_CERT_CHAIN_TOO_LONG == 22
X509_V_ERR_CERT_REVOKED == 23
X509_V_ERR_INVALID_CA == 24
X509_V_ERR_PATH_LENGTH_EXCEEDED == 25
X509_V_ERR_INVALID_PURPOSE == 26
X509_V_ERR_CERT_REJECTED == 28

POOL == 4096

NULL == "NULL"
LIVE == "SSL"

Conns == {"cli", "srv"}
Peer(c) == IF c = "cli" THEN "srv" ELSE "cli"

Min(a, b) == IF a < b THEN a ELSE b

\* the element of a one-element set
Only(S) == CHOOSE v \in S : TRUE

(***************************************************************************)
(* The wire format of the engine, as far as the harness can observe it:    *)
(* one byte per handshake flight, one byte for the close-notify alert, and *)
(* an application record of a header byte that carries the length,        *)
(* followed by the encrypted payload bytes.                                *)
(***************************************************************************)
BAD == 0
CLIENT_HELLO == 1
SERVER_HELLO_BASE == 1
CLIENT_FINISHED == 4
SERVER_FINISHED == 5
CLOSE_NOTIFY == 6
APP_BASE == 6
NumCiphers == 2
PlainMod == 2

Ciphers == 1..NumCiphers
SERVER_HELLO(k) == SERVER_HELLO_BASE + k
IsServerHello(b) == b \in {SERVER_HELLO(k) : k \in Ciphers}
APP(n) == APP_BASE + n
IsApp(b) == b > APP_BASE /\ b <= APP_BASE + MaxMsg

Plain == 0..(PlainMod - 1)

RECURSIVE SeqsUpTo(_, _)
SeqsUpTo(S, n) ==
  IF n = 0 THEN {<<>>}
  ELSE LET shorter == SeqsUpTo(S, n - 1)
       IN shorter \cup {Append(s, x) : s \in {t \in shorter : Len(t) = n - 1}, x \in S}

Messages == SeqsUpTo(Plain, MaxMsg) \ {<<>>}

\* record encryption and decryption under the negotiated cipher
Enc(k, m) == [i \in 1..Len(m) |-> (m[i] + k) % PlainMod]
Dec(k, m) == [i \in 1..Len(m) |-> (m[i] + PlainMod * NumCiphers - k) % PlainMod]

\* the peer certificate as the engine sees it: none, or its verification result
NoCert == -1
VerifyCodes == {X509_V_OK, X509_V_ERR_CERT_SIGNATURE_FAILURE,
                X509_V_ERR_CERT_HAS_EXPIRED, X509_V_ERR_CERT_UNTRUSTED}
\* a client may present no certificate or one with any of these results; a
\* server presents one, which is in order or has expired
ClientCerts == {NoCert} \cup VerifyCodes
ServerCerts == {X509_V_OK, X509_V_ERR_CERT_HAS_EXPIRED}
PeerCerts == ClientCerts \cup ServerCerts

SENT_SHUTDOWN == 1
RECEIVED_SHUTDOWN == 2

HasBit(x, b) == (x \div b) % 2 = 1
SetBit(x, b) == IF HasBit(x, b) THEN x ELSE x + b

(***************************************************************************)
(* The engine handle: its handshake state, what it negotiated and what     *)
(* it learnt about the peer certificate.  freed counts the SSL_free calls  *)
(* that released this object.                                              *)
(***************************************************************************)
SSL_new ==
  [state |-> "before", server |-> FALSE, cipher |-> 0,
   verify_mode |-> SSL_VERIFY_NONE, peer_cert |-> FALSE,
   verify_result |-> X509_V_OK, shutdown |-> 0, reason |-> "", freed |-> 0]

SSL_set_verify(e, mode) == [e EXCEPT !.verify_mode = mode]
SSL_set_accept_state(e) == [e EXCEPT !.server = TRUE, !.state = "before"]
SSL_set_connect_state(e) == [e EXCEPT !.server = FALSE, !.state = "before"]

SSL_is_init_finished(e) == e.state = "ok"

\* the result of one engine call: the engine, its two BIOs, the status, SSL_get_error
ER(e, rbio, wbio, rv, err) ==
  [ssl |-> e, rbio |-> rbio, wbio |-> wbio, rv |-> rv, err |-> err, data |-> <<>>]

\* a failed call leaves its reason in the error queue (ERR_print_errors)
Fail(e, rbio, wbio, why) ==
  ER([e EXCEPT !.reason = why], rbio, wbio, -1, SSL_ERROR_SSL)

\* src: the verification callback ignores preverify_ok and lets the handshake go on
tls_conn_verify_cb(preverify_ok) == 1

\* why the engine stops at the peer's certificate, when it does
CertReason(pc) == IF pc = NoCert THEN "no_peer_cert" ELSE "cert_verify_failed"

\* whether the engine goes on after looking at the peer's certificate pc
CertAccepted(e, pc) ==
  IF e.server /\ ~HasBit(e.verify_mode, SSL_VERIFY_PEER) THEN TRUE
  ELSE IF pc = NoCert
       THEN ~(e.server /\ HasBit(e.verify_mode, SSL_VERIFY_FAIL_IF_NO_PEER_CERT))
       ELSE \/ e.verify_mode = SSL_VERIFY_NONE
            \/ tls_conn_verify_cb(IF pc = X509_V_OK THEN 1 ELSE 0) # 0

WithPeerCert(e, pc) ==
  IF pc = NoCert \/ (e.server /\ ~HasBit(e.verify_mode, SSL_VERIFY_PEER))
  THEN [e EXCEPT !.peer_cert = FALSE, !.verify_result = X509_V_OK]
  ELSE [e EXCEPT !.peer_cert = TRUE, !.verify_result = pc]

\* the engine reads the next handshake flight: nothing there, a close-notify,
\* the flight it waits for, or something it cannot accept
SSL_connect(e, rbio, wbio, env) ==
  IF e.state = "before"
  THEN ER([e EXCEPT !.state = "wait_sh"], rbio, Append(wbio, CLIENT_HELLO),
          -1, SSL_ERROR_WANT_READ)
  ELSE IF e.state = "ok" THEN ER(e, rbio, wbio, 1, SSL_ERROR_NONE)
  ELSE IF e.state \notin {"wait_sh", "wait_sfin"}
  THEN Fail(e, rbio, wbio, "protocol")
  ELSE IF rbio = <<>> THEN ER(e, rbio, wbio, -1, SSL_ERROR_WANT_READ)
  ELSE IF Head(rbio) = CLOSE_NOTIFY
  THEN ER([e EXCEPT !.shutdown = SetBit(@, RECEIVED_SHUTDOWN)], Tail(rbio), wbio,
          0, SSL_ERROR_ZERO_RETURN)
  ELSE IF e.state = "wait_sh" /\ IsServerHello(Head(rbio)) /\ ~CertAccepted(e, env.cert)
  THEN Fail(e, Tail(rbio), wbio, CertReason(env.cert))
  ELSE IF e.state = "wait_sh" /\ IsServerHello(Head(rbio))
  THEN ER([WithPeerCert(e, env.cert) EXCEPT !.state = "wait_sfin",
                                            !.cipher = Head(rbio) - SERVER_HELLO_BASE],
          Tail(rbio), Append(wbio, CLIENT_FINISHED), -1, SSL_ERROR_WANT_READ)
  ELSE IF e.state = "wait_sfin" /\ Head(rbio) = SERVER_FINISHED
  THEN ER([e EXCEPT !.state = "ok"], Tail(rbio), wbio, 1, SSL_ERROR_NONE)
  ELSE Fail(e, Tail(rbio), wbio, "protocol")

SSL_accept(e, rbio, wbio, env) ==
  IF e.state = "ok" THEN ER(e, rbio, wbio, 1, SSL_ERROR_NONE)
  ELSE IF e.state \notin {"before", "wait_cfin"}
  THEN Fail(e, rbio, wbio, "protocol")
  ELSE IF rbio = <<>> THEN ER(e, rbio, wbio, -1, SSL_ERROR_WANT_READ)
  ELSE IF Head(rbio) = CLOSE_NOTIFY
  THEN ER([e EXCEPT !.shutdown = SetBit(@, RECEIVED_SHUTDOWN)], Tail(rbio), wbio,
          0, SSL_ERROR_ZERO_RETURN)
  ELSE IF e.state = "before" /\ Head(rbio) = CLIENT_HELLO
  THEN ER([e EXCEPT !.state = "wait_cfin", !.cipher = env.cipher],
          Tail(rbio), Append(wbio, SERVER_HELLO(env.cipher)), -1, SSL_ERROR_WANT_READ)
  ELSE IF e.state = "wait_cfin" /\ Head(rbio) = CLIENT_FINISHED /\ ~CertAccepted(e, env.cert)
  THEN Fail(e, Tail(rbio), wbio, CertReason(env.cert))
  ELSE IF e.state = "wait_cfin" /\ Head(rbio) = CLIENT_FINISHED
  THEN ER([WithPeerCert(e, env.cert) EXCEPT !.state = "ok"],
          Tail(rbio), Append(wbio, SERVER_FINISHED), 1, SSL_ERROR_NONE)
  ELSE Fail(e, Tail(rbio), wbio, "protocol")

\* the handshake function SSL_set_accept_state / SSL_set_connect_state installed
SSL_do_handshake(e, rbio, wbio, env) ==
  IF e.server THEN SSL_accept(e, rbio, wbio, env) ELSE SSL_connect(e, rbio, wbio, env)

\* SSL_write and SSL_read run the handshake themselves while it is not finished
SSL_write_record(r, data) ==
  IF Len(data) = 0 THEN [r EXCEPT !.rv = 0, !.err = SSL_ERROR_NONE]
  ELSE [r EXCEPT !.wbio = Append(@, APP(Len(data))) \o Enc(r.ssl.cipher, data),
                 !.rv = Len(data), !.err = SSL_ERROR_NONE]

SSL_write(e, rbio, wbio, data, env) ==
  IF HasBit(e.shutdown, SENT_SHUTDOWN) THEN Fail(e, rbio, wbio, "shutdown")
  ELSE IF SSL_is_init_finished(e) THEN SSL_write_record(ER(e, rbio, wbio, 0, 0), data)
  ELSE Only({IF h.rv < 0 THEN h
             ELSE IF h.rv = 0 THEN Fail(h.ssl, h.rbio, h.wbio, "handshake")
             ELSE SSL_write_record(h, data) : h \in {SSL_do_handshake(e, rbio, wbio, env)}})

\* a server that finds a client hello where it expects a record starts the
\* handshake over (renegotiation): the engine leaves the finished state
SSL_read_record(r, n, env) ==
  LET rbio == r.rbio
      len == IF rbio # <<>> /\ IsApp(Head(rbio)) THEN Head(rbio) - APP_BASE ELSE 0
  IN IF rbio = <<>> THEN [r EXCEPT !.rv = -1, !.err = SSL_ERROR_WANT_READ]
     ELSE IF Head(rbio) = CLOSE_NOTIFY
     THEN [r EXCEPT !.ssl.shutdown = SetBit(@, RECEIVED_SHUTDOWN), !.rbio = Tail(rbio),
                    !.rv = 0, !.err = SSL_ERROR_ZERO_RETURN]
     ELSE IF r.ssl.server /\ Head(rbio) = CLIENT_HELLO
     THEN SSL_accept(SSL_set_accept_state(r.ssl), rbio, r.wbio, env)
     ELSE IF ~IsApp(Head(rbio))
     THEN Fail(r.ssl, Tail(rbio), r.wbio, "protocol")
     ELSE IF Len(rbio) < 1 + len THEN [r EXCEPT !.rv = -1, !.err = SSL_ERROR_WANT_READ]
     ELSE [r EXCEPT !.rbio = SubSeq(rbio, 2 + len, Len(rbio)),
                    !.data = Dec(r.ssl.cipher, SubSeq(rbio, 2, Min(len, n) + 1)),
                    !.rv = Min(len, n), !.err = SSL_ERROR_NONE]

SSL_read(e, rbio, wbio, n, env) ==
  IF HasBit(e.shutdown, RECEIVED_SHUTDOWN) THEN ER(e, rbio, wbio, 0, SSL_ERROR_ZERO_RETURN)
  ELSE IF SSL_is_init_finished(e) THEN SSL_read_record(ER(e, rbio, wbio, 0, 0), n, env)
  ELSE Only({IF h.rv < 0 THEN h
             ELSE IF h.rv = 0 THEN Fail(h.ssl, h.rbio, h.wbio, "handshake")
             ELSE SSL_read_record(h, n, env) : h \in {SSL_do_handshake(e, rbio, wbio, env)}})

\* close-notify: sent once; the call reports 1 when both directions are closed
SSL_shutdown(e, rbio, wbio) ==
  IF e.state = "before"
  THEN ER([e EXCEPT !.shutdown = SENT_SHUTDOWN + RECEIVED_SHUTDOWN], rbio, wbio, 1,
          SSL_ERROR_NONE)
  ELSE LET sent == [e EXCEPT !.shutdown = SetBit(@, SENT_SHUTDOWN)]
           w == IF HasBit(e.shutdown, SENT_SHUTDOWN) THEN wbio
                ELSE Append(wbio, CLOSE_NOTIFY)
           got == HasBit(e.shutdown, SENT_SHUTDOWN) /\ rbio # <<>>
                  /\ Head(rbio) = CLOSE_NOTIFY
           e2 == IF got THEN [sent EXCEPT !.shutdown = SetBit(@, RECEIVED_SHUTDOWN)]
                 ELSE sent
       IN ER(e2, IF got THEN Tail(rbio) ELSE rbio, w,
             IF HasBit(e2.shutdown, RECEIVED_SHUTDOWN) THEN 1 ELSE 0, SSL_ERROR_NONE)

\* the peer certificate of the session, if there is one; none for a NULL handle
SSL_get_peer_certificate(ptr, e) == ptr # NULL /\ e.peer_cert
SSL_get_verify_result(e) == e.verify_result

\* the library's own description of a verification result
X509_verify_cert_error_string(n) ==
  [kind |-> "string", text |-> "X509_verify_cert_error_string", lib |-> n]

\* SSL_free(NULL) does nothing; otherwise the object (and its BIOs) is released
SSL_free(ptr, e) == IF ptr = NULL THEN e ELSE [e EXCEPT !.freed = @ + 1]

\* the memory BIO: BIO_write appends (or fails when memory runs out), BIO_read
\* takes from the front and answers -1 with the retry-read flag when empty
BIO_write(bio, data, ok) ==
  IF ok THEN [bio |-> bio \o data, data |-> <<>>, rv |-> Len(data),
              should_read |-> FALSE, should_write |-> FALSE]
  ELSE [bio |-> bio, data |-> <<>>, rv |-> -1, should_read |-> FALSE,
        should_write |-> FALSE]

BIO_read(bio, n) ==
  IF bio = <<>>
  THEN [bio |-> bio, data |-> <<>>, rv |-> -1, should_read |-> TRUE,
        should_write |-> FALSE]
  ELSE [bio |-> SubSeq(bio, Min(Len(bio), n) + 1, Len(bio)),
        data |-> SubSeq(bio, 1, Min(Len(bio), n)), rv |-> Min(Len(bio), n),
        should_read |-> FALSE, should_write |-> FALSE]

BIO_pending(bio) == Len(bio)

(***************************************************************************)
(* The connection object (tls_conn_t) and its methods.  Each method is an  *)
(* operator from the object t and its engine e to a result: the object and *)
(* engine afterwards, the number pushed to the caller (rv), the bytes      *)
(* pushed (data), whether a classifier took its fatal branch, whether the  *)
(* process died (abort), and the engine calls made, in order.              *)
(***************************************************************************)
tls_conn_t(is_server) ==
  [bio_read |-> <<>>, bio_write |-> <<>>, ssl |-> LIVE, is_server |-> is_server,
   error |-> 0]

HR(t, e, rv) ==
  [tc |-> t, ssl |-> e, rv |-> rv, data |-> <<>>, fatal |-> FALSE, abort |-> FALSE,
   calls |-> <<>>, hsrv |-> 0, stepfin |-> FALSE]

\* a NULL or dangling pointer was dereferenced and the process died
Segv(t, e) == [HR(t, e, 0) EXCEPT !.abort = TRUE]

\* what a read through a dangling BIO pointer can give
UBs == [crash : BOOLEAN, rv : {-1, 0}]

\* a variant that derives the verify mode without looking at the role
newCONN_any_role(is_server, is_request_cert, is_reject_unauthorized) ==
  LET verify_mode ==
        IF ~is_request_cert THEN SSL_VERIFY_NONE
        ELSE IF is_reject_unauthorized
             THEN SSL_VERIFY_PEER + SSL_VERIFY_FAIL_IF_NO_PEER_CERT
             ELSE SSL_VERIFY_PEER
      e == SSL_set_verify(SSL_new, verify_mode)
  IN [tc |-> tls_conn_t(is_server),
      ssl |-> IF is_server THEN SSL_set_accept_state(e) ELSE SSL_set_connect_state(e)]

newCONN(is_server, is_request_cert, is_reject_unauthorized) ==
  LET verify_mode ==
        IF is_server
        THEN IF ~is_request_cert THEN SSL_VERIFY_NONE
             ELSE IF is_reject_unauthorized
                  THEN SSL_VERIFY_PEER + SSL_VERIFY_FAIL_IF_NO_PEER_CERT
                  ELSE SSL_VERIFY_PEER
        ELSE SSL_VERIFY_NONE
      e == SSL_set_verify(SSL_new, verify_mode)
  IN [tc |-> tls_conn_t(is_server),
      ssl |-> IF is_server THEN SSL_set_accept_state(e) ELSE SSL_set_connect_state(e)]

tls_handle_ssl_error_x(rv, err, nd) ==
  IF rv >= 0 THEN [ret |-> rv, fatal |-> FALSE, abort |-> FALSE]
  ELSE IF err = SSL_ERROR_NONE THEN [ret |-> 0, fatal |-> FALSE, abort |-> FALSE]
  ELSE IF err = SSL_ERROR_WANT_WRITE THEN [ret |-> 0, fatal |-> FALSE, abort |-> FALSE]
  ELSE IF err = SSL_ERROR_WANT_READ THEN [ret |-> 0, fatal |-> FALSE, abort |-> FALSE]
  ELSE [ret |-> rv, fatal |-> TRUE,
        abort |-> ~nd /\ ~(err = SSL_ERROR_SSL \/ err = SSL_ERROR_SYSCALL)]

\* a variant that records the status when the BIO only asks for a retry
tls_handle_bio_error_x_retry_recorded(t, rv, should_write, should_read, nd) ==
  IF rv >= 0 THEN [tc |-> t, ret |-> rv, fatal |-> FALSE, abort |-> FALSE]
  ELSE IF should_write THEN [tc |-> t, ret |-> 0, fatal |-> FALSE, abort |-> FALSE]
  ELSE IF should_read
  THEN [tc |-> [t EXCEPT !.error = rv], ret |-> 0, fatal |-> FALSE, abort |-> FALSE]
  ELSE [tc |-> [t EXCEPT !.error = rv], ret |-> rv, fatal |-> TRUE,
        abort |-> ~nd /\ ~(rv = SSL_ERROR_SSL \/ rv = SSL_ERROR_SYSCALL)]

\* a variant that records the status before it looks at the retry flags
tls_handle_bio_error_x_early_record(t, rv, should_write, should_read, nd) ==
  IF rv >= 0 THEN [tc |-> t, ret |-> rv, fatal |-> FALSE, abort |-> FALSE]
  ELSE IF should_write \/ should_read
  THEN [tc |-> [t EXCEPT !.error = rv], ret |-> 0, fatal |-> FALSE, abort |-> FALSE]
  ELSE [tc |-> [t EXCEPT !.error = rv], ret |-> rv, fatal |-> TRUE,
        abort |-> ~nd /\ ~(rv = SSL_ERROR_SSL \/ rv = SSL_ERROR_SYSCALL)]

tls_handle_bio_error_x(t, rv, should_write, should_read, nd) ==
  IF rv >= 0 THEN [tc |-> t, ret |-> rv, fatal |-> FALSE, abort |-> FALSE]
  ELSE IF should_write THEN [tc |-> t, ret |-> 0, fatal |-> FALSE, abort |-> FALSE]
  ELSE IF should_read THEN [tc |-> t, ret |-> 0, fatal |-> FALSE, abort |-> FALSE]
  ELSE [tc |-> [t EXCEPT !.error = rv], ret |-> rv, fatal |-> TRUE,
        abort |-> ~nd /\ ~(rv = SSL_ERROR_SSL \/ rv = SSL_ERROR_SYSCALL)]

\* the handshake step of start, clearIn and clearOut: accept or connect by role
StepPushed(t, r, h) ==
  [HR([t EXCEPT !.bio_read = r.rbio, !.bio_write = r.wbio], r.ssl, r.rv)
     EXCEPT !.fatal = h.fatal, !.abort = h.abort,
            !.calls = <<IF t.is_server THEN "SSL_accept" ELSE "SSL_connect">>,
            !.hsrv = r.rv, !.stepfin = SSL_is_init_finished(r.ssl)]

HandshakeStep(t, e, env, nd) ==
  Only({StepPushed(t, r, tls_handle_ssl_error_x(r.rv, r.err, nd)) :
          r \in {IF t.is_server THEN SSL_accept(e, t.bio_read, t.bio_write, env)
                 ELSE SSL_connect(e, t.bio_read, t.bio_write, env)}})

\* a variant that pushes the classified status instead of the raw one
tls_conn_start_pushes_classified(t, e, env, nd) ==
  IF t.ssl = NULL THEN Segv(t, e)
  ELSE IF ~SSL_is_init_finished(e)
  THEN Only({[hs EXCEPT !.rv = tls_handle_ssl_error_x(hs.hsrv, SSL_ERROR_WANT_READ, nd).ret] :
               hs \in {HandshakeStep(t, e, env, nd)}})
  ELSE [HR(t, e, 0) EXCEPT !.stepfin = TRUE]

\* a variant that forgets the role and always connects
tls_conn_start_connect_only(t, e, env, nd) ==
  IF t.ssl = NULL THEN Segv(t, e)
  ELSE IF ~SSL_is_init_finished(e)
  THEN Only({[StepPushed(t, r, tls_handle_ssl_error_x(r.rv, r.err, nd))
                EXCEPT !.calls = <<"SSL_connect">>] :
               r \in {SSL_connect(e, t.bio_read, t.bio_write, env)}})
  ELSE [HR(t, e, 0) EXCEPT !.stepfin = TRUE]

tls_conn_start(t, e, env, nd) ==
  IF t.ssl = NULL THEN Segv(t, e)
  ELSE IF ~SSL_is_init_finished(e) THEN HandshakeStep(t, e, env, nd)
  ELSE [HR(t, e, 0) EXCEPT !.stepfin = TRUE]

\* a variant that frees the engine and keeps the pointer
tls_conn_close_keeps_pointer(t, e) ==
  HR([t EXCEPT !.bio_read = <<>>, !.bio_write = <<>>], SSL_free(t.ssl, e), 0)

tls_conn_close(t, e) ==
  HR([t EXCEPT !.ssl = NULL, !.bio_read = <<>>, !.bio_write = <<>>],
     SSL_free(t.ssl, e), 0)

tls_conn_gc(t, e) == tls_conn_close(t, e)

BioPushed(e, w, h, data) ==
  [HR(h.tc, e, w.rv) EXCEPT !.fatal = h.fatal, !.abort = h.abort, !.data = data]

\* a BIO call through a dangling pointer: no effect, a status out of thin air
Stale(bio, ub) ==
  [bio |-> bio, data |-> <<>>, rv |-> ub.rv, should_read |-> FALSE,
   should_write |-> FALSE]

\* a variant that writes the fed bytes to the outgoing BIO
tls_conn_enc_in_wrong_bio(t, e, data, ok, nd, ub) ==
  IF t.ssl = NULL /\ ub.crash THEN Segv(t, e)
  ELSE Only({BioPushed(e, w, tls_handle_bio_error_x([t EXCEPT !.bio_write = w.bio], w.rv,
                                                    w.should_write, w.should_read, nd),
                       data) :
               w \in {IF t.ssl = NULL THEN Stale(t.bio_write, ub)
                      ELSE BIO_write(t.bio_write, data, ok)}})

tls_conn_enc_in(t, e, data, ok, nd, ub) ==
  IF t.ssl = NULL /\ ub.crash THEN Segv(t, e)
  ELSE Only({BioPushed(e, w, tls_handle_bio_error_x([t EXCEPT !.bio_read = w.bio], w.rv,
                                                    w.should_write, w.should_read, nd),
                       data) :
               w \in {IF t.ssl = NULL THEN Stale(t.bio_read, ub)
                      ELSE BIO_write(t.bio_read, data, ok)}})

tls_conn_enc_out(t, e, nd, ub) ==
  IF t.ssl = NULL /\ ub.crash THEN Segv(t, e)
  ELSE Only({BioPushed(e, b, tls_handle_bio_error_x([t EXCEPT !.bio_write = b.bio], b.rv,
                                                    b.should_write, b.should_read, nd),
                       IF b.rv > 0 THEN b.data ELSE <<>>) :
               b \in {IF t.ssl = NULL THEN Stale(t.bio_write, ub)
                      ELSE BIO_read(t.bio_write, POOL)}})

tls_conn_enc_pending(t, e, ub) ==
  IF t.ssl = NULL THEN (IF ub.crash THEN Segv(t, e) ELSE HR(t, e, ub.rv))
  ELSE HR(t, e, BIO_pending(t.bio_write))

\* the handshake part of clearIn and clearOut: skipped once the handshake is done
HandshakeFirst(t, e, env, nd) ==
  IF ~SSL_is_init_finished(e) THEN HandshakeStep(t, e, env, nd)
  ELSE [HR(t, e, 0) EXCEPT !.stepfin = TRUE]

\* what clearOut pushes after SSL_read returned r
ReadPushed(hs, r, h) ==
  [hs EXCEPT !.tc.bio_read = r.rbio, !.tc.bio_write = r.wbio,
             !.ssl = r.ssl, !.rv = r.rv,
             !.data = IF r.rv > 0 THEN r.data ELSE <<>>,
             !.fatal = hs.fatal \/ h.fatal, !.abort = h.abort,
             !.calls = Append(hs.calls, "SSL_read")]

ReadAfter(hs, env, nd) ==
  IF hs.abort \/ hs.hsrv < 0 THEN hs
  ELSE Only({ReadPushed(hs, r, tls_handle_ssl_error_x(r.rv, r.err, nd)) :
               r \in {SSL_read(hs.ssl, hs.tc.bio_read, hs.tc.bio_write, POOL, env)}})

\* a variant that hands SSL_read a one-byte pool
tls_conn_clear_out_small_pool(t, e, env, nd) ==
  IF t.ssl = NULL THEN Segv(t, e)
  ELSE Only({IF hs.abort \/ hs.hsrv < 0 THEN hs
             ELSE Only({ReadPushed(hs, r, tls_handle_ssl_error_x(r.rv, r.err, nd)) :
                          r \in {SSL_read(hs.ssl, hs.tc.bio_read, hs.tc.bio_write, 1, env)}}) :
               hs \in {HandshakeFirst(t, e, env, nd)}})

tls_conn_clear_out(t, e, env, nd) ==
  IF t.ssl = NULL THEN Segv(t, e)
  ELSE Only({ReadAfter(hs, env, nd) : hs \in {HandshakeFirst(t, e, env, nd)}})

\* what clearIn pushes after SSL_write returned r
WritePushed(hs, r, h, data) ==
  [hs EXCEPT !.tc.bio_read = r.rbio, !.tc.bio_write = r.wbio,
             !.ssl = r.ssl, !.rv = r.rv, !.data = data,
             !.fatal = hs.fatal \/ h.fatal, !.abort = h.abort,
             !.calls = Append(hs.calls, "SSL_write")]

WriteAfter(hs, data, env, nd) ==
  IF hs.abort \/ hs.hsrv < 0 THEN [hs EXCEPT !.data = data]
  ELSE Only({WritePushed(hs, r, tls_handle_ssl_error_x(r.rv, r.err, nd), data) :
               r \in {SSL_write(hs.ssl, hs.tc.bio_read, hs.tc.bio_write, data, env)}})

tls_conn_clear_in(t, e, data, env, nd) ==
  IF t.ssl = NULL THEN Segv(t, e)
  ELSE Only({WriteAfter(hs, data, env, nd) : hs \in {HandshakeFirst(t, e, env, nd)}})

\* a variant that measures the outgoing BIO
tls_conn_clear_pending_wrong_bio(t, e, ub) ==
  IF t.ssl = NULL THEN (IF ub.crash THEN Segv(t, e) ELSE HR(t, e, ub.rv))
  ELSE HR(t, e, BIO_pending(t.bio_write))

tls_conn_clear_pending(t, e, ub) ==
  IF t.ssl = NULL THEN (IF ub.crash THEN Segv(t, e) ELSE HR(t, e, ub.rv))
  ELSE HR(t, e, BIO_pending(t.bio_read))

tls_conn_shutdown(t, e) ==
  IF t.ssl = NULL THEN Segv(t, e)
  ELSE LET r == SSL_shutdown(e, t.bio_read, t.bio_write)
       IN [HR([t EXCEPT !.bio_read = r.rbio, !.bio_write = r.wbio], r.ssl, r.rv)
             EXCEPT !.calls = <<"SSL_shutdown">>]

\* rv is the number pushed; 0 stands for nil
tls_conn_get_error(t, e) == HR(t, e, t.error)

tls_conn_clear_error(t, e) == HR([t EXCEPT !.error = 0], e, 0)

\* rv is the boolean pushed, as 1 or 0
tls_conn_is_init_finished(t, e) ==
  IF t.ssl = NULL THEN Segv(t, e)
  ELSE HR(t, e, IF SSL_is_init_finished(e) THEN 1 ELSE 0)

\* rv is the cipher whose name is pushed; 0 stands for nil
tls_conn_get_current_cipher(t, e) ==
  IF t.ssl = NULL THEN HR(t, e, 0) ELSE HR(t, e, e.cipher)

\* what a method pushes besides numbers: nil or a string
Pushed(kind, text) == [kind |-> kind, text |-> text, lib |-> -1]

\* the switch over the verification result
VerifyErrorName(verify) ==
  CASE verify = X509_V_OK -> Pushed("nil", "")
    [] verify = X509_V_ERR_UNABLE_TO_GET_ISSUER_CERT -> Pushed("string", "UNABLE_TO_GET_ISSUER_CERT")
    [] verify = X509_V_ERR_UNABLE_TO_GET_CRL -> Pushed("string", "UNABLE_TO_GET_CRL")
    [] verify = X509_V_ERR_UNABLE_TO_DECRYPT_CERT_SIGNATURE -> Pushed("string", "UNABLE_TO_DECRYPT_CERT_SIGNATURE")
    [] verify = X509_V_ERR_UNABLE_TO_DECRYPT_CRL_SIGNATURE -> Pushed("string", "UNABLE_TO_DECRYPT_CRL_SIGNATURE")
    [] verify = X509_V_ERR_UNABLE_TO_DECODE_ISSUER_PUBLIC_KEY -> Pushed("string", "UNABLE_TO_DECODE_ISSUER_PUBLIC_KEY")
    [] verify = X509_V_ERR_CERT_SIGNATURE_FAILURE -> Pushed("string", "CERT_SIGNATURE_FAILURE")
    [] verify = X509_V_ERR_CRL_SIGNATURE_FAILURE -> Pushed("string", "CRL_SIGNATURE_FAILURE")
    [] verify = X509_V_ERR_CERT_NOT_YET_VALID -> Pushed("string", "CERT_NOT_YET_VALID")
    [] verify = X509_V_ERR_CERT_HAS_EXPIRED -> Pushed("string", "CERT_HAS_EXPIRED")
    [] verify = X509_V_ERR_CRL_NOT_YET_VALID -> Pushed("string", "CRL_NOT_YET_VALID")
    [] verify = X509_V_ERR_CRL_HAS_EXPIRED -> Pushed("string", "CRL_HAS_EXPIRED")
    [] verify = X509_V_ERR_ERROR_IN_CERT_NOT_BEFORE_FIELD -> Pushed("string", "ERROR_IN_CERT_NOT_BEFORE_FIELD")
    [] verify = X509_V_ERR_ERROR_IN_CERT_NOT_AFTER_FIELD -> Pushed("string", "ERROR_IN_CERT_NOT_AFTER_FIELD")
    [] verify = X509_V_ERR_ERROR_IN_CRL_LAST_UPDATE_FIELD -> Pushed("string", "ERROR_IN_CRL_LAST_UPDATE_FIELD")
    [] verify = X509_V_ERR_ERROR_IN_CRL_NEXT_UPDATE_FIELD -> Pushed("string", "ERROR_IN_CRL_NEXT_UPDATE_FIELD")
    [] verify = X509_V_ERR_OUT_OF_MEM -> Pushed("string", "OUT_OF_MEM")
    [] verify = X509_V_ERR_DEPTH_ZERO_SELF_SIGNED_CERT -> Pushed("string", "DEPTH_ZERO_SELF_SIGNED_CERT")
    [] verify = X509_V_ERR_SELF_SIGNED_CERT_IN_CHAIN -> Pushed("string", "SELF_SIGNED_CERT_IN_CHAIN")
    [] verify = X509_V_ERR_UNABLE_TO_GET_ISSUER_CERT_LOCALLY -> Pushed("string", "UNABLE_TO_GET_ISSUER_CERT_LOCALLY")
    [] verify = X509_V_ERR_UNABLE_TO_VERIFY_LEAF_SIGNATURE -> Pushed("string", "UNABLE_TO_VERIFY_LEAF_SIGNATURE")
    [] verify = X509_V_ERR_CERT_CHAIN_TOO_LONG -> Pushed("string", "CERT_CHAIN_TOO_LONG")
    [] verify = X509_V_ERR_CERT_REVOKED -> Pushed("string", "CERT_REVOKED")
    [] verify = X509_V_ERR_INVALID_CA -> Pushed("string", "INVALID_CA")
    [] verify = X509_V_ERR_PATH_LENGTH_EXCEEDED -> Pushed("string", "PATH_LENGTH_EXCEEDED")
    [] verify = X509_V_ERR_INVALID_PURPOSE -> Pushed("string", "INVALID_PURPOSE")
    [] verify = X509_V_ERR_CERT_UNTRUSTED -> Pushed("string", "CERT_UNTRUSTED")
    [] verify = X509_V_ERR_CERT_REJECTED -> Pushed("string", "CERT_REJECTED")
    [] OTHER -> X509_verify_cert_error_string(verify)

\* a variant in which one case pushes the string of the case below it
tls_conn_verify_error_pasted(t, e) ==
  IF ~SSL_get_peer_certificate(t.ssl, e)
  THEN Pushed("string", "Unable to get peer certificate")
  ELSE IF SSL_get_verify_result(e) = X509_V_ERR_CERT_NOT_YET_VALID
  THEN Pushed("string", "CERT_HAS_EXPIRED")
  ELSE VerifyErrorName(SSL_get_verify_result(e))

tls_conn_verify_error(t, e) ==
  IF ~SSL_get_peer_certificate(t.ssl, e)
  THEN Pushed("string", "Unable to get peer certificate")
  ELSE VerifyErrorName(SSL_get_verify_result(e))

(***************************************************************************)
(* The peer certificate snapshot.  x is the certificate the engine hands   *)
(* out: its key type, its extensions, and the digest that X509_digest      *)
(* computes of it.  Characters are one-letter strings; a char buffer is a  *)
(* function from its indices, and holds UNINIT where nothing was written.  *)
(***************************************************************************)
EVP_MAX_MD_SIZE == 64
NUL == "NUL"
UNINIT == "?"
hex == <<"0", "1", "2", "3", "4", "5", "6", "7",
         "8", "9", "A", "B", "C", "D", "E", "F">>

FingerprintSize == EVP_MAX_MD_SIZE * 3

\* the character the loop writes at index k of the buffer
FingerprintLoopChar(md, k) ==
  IF k % 3 = 0 THEN hex[(md[(k \div 3) + 1] \div 16) + 1]
  ELSE IF k % 3 = 1 THEN hex[(md[(k \div 3) + 1] % 16) + 1]
  ELSE ":"

\* a variant that ends the string after the last colon
FingerprintTerminator_after_colon(md_size) == 3 * md_size

\* where the terminator goes
FingerprintTerminator(md_size) ==
  IF md_size > 0 THEN (3 * (md_size - 1)) + 2 ELSE 0

\* the indices the rendering writes to
FingerprintWritten(md) ==
  {k \in 0..(3 * Len(md) - 1) : TRUE} \cup {FingerprintTerminator(Len(md))}

\* the buffer afterwards: the terminator is written last
FingerprintBuffer(md) ==
  Only({[k \in 0..(FingerprintSize - 1) |->
           IF k = z THEN NUL
           ELSE IF k < 3 * Len(md) THEN FingerprintLoopChar(md, k)
           ELSE UNINIT] : z \in {FingerprintTerminator(Len(md))}})

\* lua_pushstring copies the characters in front of the first NUL
FirstNUL(buf) ==
  IF \E k \in DOMAIN buf : buf[k] = NUL
  THEN CHOOSE k \in DOMAIN buf : buf[k] = NUL /\ \A j \in 0..(k - 1) : buf[j] # NUL
  ELSE -1

lua_pushstring(buf) ==
  Only({[text |-> [i \in 1..(IF z < 0 THEN 0 ELSE z) |-> buf[i - 1]],
         overread |-> z < 0 \/ \E j \in 0..(z - 1) : buf[j] = UNINIT] :
          z \in {FirstNUL(buf)}})

\* the resources the snapshot takes and the call that gives each one back
Resources == {"bio", "peer_cert", "pkey", "rsa", "eku"}
Releaser ==
  [bio |-> "BIO_free", peer_cert |-> "X509_free", pkey |-> "EVP_PKEY_free",
   rsa |-> "RSA_free", eku |-> "sk_ASN1_OBJECT_pop_free"]

Acquired(x) ==
  [bio |-> 1, peer_cert |-> 1,
   pkey |-> IF x.key # "none" THEN 1 ELSE 0,
   rsa |-> IF x.key = "rsa" THEN 1 ELSE 0,
   eku |-> IF x.eku THEN 1 ELSE 0]

\* the allocating and releasing calls of the snapshot, in program order
PeerCertificateCalls(x) ==
  <<"SSL_get_peer_certificate", "BIO_new", "X509_get_pubkey">>
    \o (IF x.key = "rsa" THEN <<"EVP_PKEY_get1_RSA">> ELSE <<>>)
    \o <<"BIO_free", "X509_digest", "X509_get_ext_d2i">>
    \o (IF x.eku THEN <<"sk_ASN1_OBJECT_pop_free">> ELSE <<>>)
    \o <<"BIO_free", "X509_free">>

Released(calls) ==
  [res \in Resources |->
     Cardinality({i \in DOMAIN calls : calls[i] = Releaser[res]})]

\* the keys of the table that is returned
PeerCertificateKeys(x) ==
  {"subject", "issuer", "valid_from", "valid_to"}
    \cup (IF x.san THEN {"subjectaltname"} ELSE {})
    \cup (IF x.key = "rsa" THEN {"modulus", "e"} ELSE {})
    \cup (IF x.digest_ok THEN {"fingerprint"} ELSE {})
    \cup (IF x.eku THEN {"ext_key_usage"} ELSE {})

NoTable == [kind |-> "nil"]

\* the certificate the engine hands out
X509_of(e) == e.x509

tls_conn_get_peer_certificate(t, e) ==
  IF t.ssl = NULL THEN NoTable
  ELSE IF ~SSL_get_peer_certificate(t.ssl, e) THEN NoTable
  ELSE Only({[kind |-> "table",
              keys |-> PeerCertificateKeys(x),
              fingerprint |-> IF x.digest_ok THEN f.text ELSE <<>>,
              overflow |-> /\ x.digest_ok
                           /\ \E k \in FingerprintWritten(x.md) : k >= FingerprintSize,
              overread |-> x.digest_ok /\ f.overread,
              acquired |-> Acquired(x),
              released |-> Released(PeerCertificateCalls(x))] :
               x \in {X509_of(e)}, f \in {lua_pushstring(FingerprintBuffer(X509_of(e).md))}})

(***************************************************************************)
(* The system: the caller invokes one method of one connection at a time.  *)
(* last records the latest call and what it returned; wire[c] holds the    *)
(* ciphertext drained from c and not yet fed to its peer; sentq[c] the     *)
(* cleartext c wrote that its peer has not read yet.                       *)
(***************************************************************************)
InjectBytes == {BAD, CLOSE_NOTIFY, CLIENT_HELLO}
InjectSeqs == SeqsUpTo(InjectBytes, MaxFeed) \ {<<>>}

NoUB == [crash |-> TRUE, rv |-> 0]
NoEnv == [cipher |-> 1, cert |-> NoCert]

\* the engine call on c that comes next picks the cipher: a server reads a
\* client hello
PicksCipher(c) ==
  /\ tc[c].ssl # NULL
  /\ tc[c].bio_read # <<>>
  /\ engine[c].server
  /\ engine[c].state \in {"before", "ok"}
  /\ Head(tc[c].bio_read) = CLIENT_HELLO

\* the engine call on c that comes next looks at the peer's certificate
ReadsCert(c) ==
  /\ tc[c].ssl # NULL
  /\ tc[c].bio_read # <<>>
  /\ \/ /\ engine[c].server
        /\ engine[c].state = "wait_cfin"
        /\ Head(tc[c].bio_read) = CLIENT_FINISHED
     \/ /\ ~engine[c].server
        /\ engine[c].state = "wait_sh"
        /\ IsServerHello(Head(tc[c].bio_read))

\* the environment has a say only in those two calls
EnvsFor(c) ==
  IF PicksCipher(c) THEN {[NoEnv EXCEPT !.cipher = k] : k \in Ciphers}
  ELSE IF ReadsCert(c)
  THEN {[NoEnv EXCEPT !.cert = pc] :
          pc \in IF engine[c].server THEN ClientCerts ELSE ServerCerts}
  ELSE {NoEnv}

\* the same, for a peer whose context is compatible with this end's policy
CompatEnvsFor(c) ==
  {env \in EnvsFor(c) : ReadsCert(c) => CertAccepted(engine[c], env.cert)}
UBFor(c) == IF tc[c].ssl = NULL THEN UBs ELSE {NoUB}

\* nd: the build has NDEBUG, assert() compiles to nothing.  The build matters
\* only where an assertion can fail: in the fatal branch of the BIO classifier
Builds == BOOLEAN
BuildsFor(c) == IF tc[c].ssl = NULL THEN Builds ELSE {FALSE}

Callable(c) == ~crashed /\ c \notin finalized

Record(c, op, r) ==
  [op |-> op, conn |-> c, rv |-> r.rv, data |-> r.data, fatal |-> r.fatal,
   calls |-> r.calls, hsrv |-> r.hsrv, stepfin |-> r.stepfin,
   olderr |-> IF op = "clearError" THEN tc[c].error ELSE 0,
   expect |-> IF op = "clearOut" /\ r.rv > 0 /\ sentq[Peer(c)] # <<>>
              THEN Head(sentq[Peer(c)]) ELSE <<>>]

Apply(c, op, r) ==
  /\ Callable(c)
  /\ IF r.abort
     THEN /\ crashed' = TRUE
          /\ UNCHANGED <<tc, engine, last>>
     ELSE /\ Len(r.tc.bio_read) <= MaxBuf
          /\ Len(r.tc.bio_write) <= MaxBuf
          /\ tc' = [tc EXCEPT ![c] = r.tc]
          /\ engine' = [engine EXCEPT ![c] = r.ssl]
          /\ last' = Record(c, op, r)
          /\ crashed' = FALSE

\* a query changes nothing, unless it dies on a released handle
ApplyQuery(c, r) ==
  /\ Callable(c)
  /\ crashed' = r.abort
  /\ UNCHANGED <<tc, engine, last>>

Init ==
  /\ \E rc \in BOOLEAN, ru \in BOOLEAN :
       /\ tc = [c \in Conns |-> newCONN(c = "srv", rc, ru).tc]
       /\ engine = [c \in Conns |-> newCONN(c = "srv", rc, ru).ssl]
  /\ wire = [c \in Conns |-> <<>>]
  /\ last = [op |-> "create", conn |-> "cli", rv |-> 0, data |-> <<>>,
             fatal |-> FALSE, calls |-> <<>>, hsrv |-> 0, stepfin |-> FALSE,
             olderr |-> 0, expect |-> <<>>]
  /\ crashed = FALSE
  /\ finalized = {}
  /\ budget = [events |-> 0, closes |-> [c \in Conns |-> 0], cleared |-> {}]
  /\ sentq = [c \in Conns |-> <<>>]

StartWith(c, envs) ==
  /\ \E env \in envs, nd \in BuildsFor(c) :
       \E r \in {tls_conn_start(tc[c], engine[c], env, nd)} : Apply(c, "start", r)
  /\ UNCHANGED <<wire, finalized, budget, sentq>>

Start(c) == StartWith(c, EnvsFor(c))

\* releasing an engine that was not released before is one of the events the
\* model rations
Releases(c) == IF engine[c].freed = 0 THEN 1 ELSE 0

Close(c) ==
  /\ budget.closes[c] < MaxClose
  /\ budget.events + Releases(c) <= MaxEvents
  /\ \E r \in {tls_conn_close(tc[c], engine[c])} : Apply(c, "close", r)
  /\ budget' = [budget EXCEPT !.closes[c] = @ + 1, !.events = @ + Releases(c)]
  /\ UNCHANGED <<wire, finalized, sentq>>

\* the finalizer runs once, when the object is collected
Gc(c) ==
  /\ budget.events + Releases(c) <= MaxEvents
  /\ \E r \in {tls_conn_gc(tc[c], engine[c])} : Apply(c, "gc", r)
  /\ finalized' = finalized \cup {c}
  /\ budget' = [budget EXCEPT !.events = @ + Releases(c)]
  /\ UNCHANGED <<wire, sentq>>

\* the caller feeds bytes of its own choosing
Inject(c) ==
  /\ budget.events < MaxEvents
  /\ \E data \in InjectSeqs, ub \in UBFor(c), nd \in BuildsFor(c) :
       \E r \in {tls_conn_enc_in(tc[c], engine[c], data, TRUE, nd, ub)} :
          Apply(c, "encIn", r)
  /\ budget' = [budget EXCEPT !.events = @ + 1]
  /\ UNCHANGED <<wire, finalized, sentq>>

\* the caller feeds what the peer's drain gave it
Deliver(c) ==
  /\ wire[Peer(c)] # <<>>
  /\ \E ub \in UBFor(c), nd \in BuildsFor(c) :
       \E r \in {tls_conn_enc_in(tc[c], engine[c], wire[Peer(c)], TRUE, nd, ub)} :
          /\ Apply(c, "encIn", r)
          /\ wire' = IF r.abort THEN wire ELSE [wire EXCEPT ![Peer(c)] = <<>>]
  /\ UNCHANGED <<finalized, budget, sentq>>

\* the memory BIO cannot grow: BIO_write fails
DeliverFault(c) ==
  /\ budget.events < MaxEvents
  /\ wire[Peer(c)] # <<>>
  /\ tc[c].ssl # NULL
  /\ \E nd \in Builds :
       \E r \in {tls_conn_enc_in(tc[c], engine[c], wire[Peer(c)], FALSE, nd, NoUB)} :
          Apply(c, "encIn", r)
  /\ budget' = [budget EXCEPT !.events = @ + 1]
  /\ UNCHANGED <<wire, finalized, sentq>>

Drain(c) ==
  /\ \E ub \in UBFor(c), nd \in BuildsFor(c) :
       \E r \in {tls_conn_enc_out(tc[c], engine[c], nd, ub)} :
          /\ Apply(c, "encOut", r)
          /\ Len(wire[c]) + Len(r.data) <= MaxBuf
          /\ wire' = IF r.abort THEN wire ELSE [wire EXCEPT ![c] = @ \o r.data]
  /\ UNCHANGED <<finalized, budget, sentq>>

EncPending(c) ==
  /\ \E ub \in UBFor(c) : ApplyQuery(c, tls_conn_enc_pending(tc[c], engine[c], ub))
  /\ UNCHANGED <<wire, finalized, budget, sentq>>

ClearPending(c) ==
  /\ \E ub \in UBFor(c) : ApplyQuery(c, tls_conn_clear_pending(tc[c], engine[c], ub))
  /\ UNCHANGED <<wire, finalized, budget, sentq>>

\* a cleartext write that the engine turns into a record is rationed as well
Wrote(r) == ~r.abort /\ r.rv > 0 /\ "SSL_write" \in {r.calls[i] : i \in 1..Len(r.calls)}

ClearInWith(c, envs) ==
  /\ \E data \in Messages, env \in envs, nd \in BuildsFor(c) :
       \E r \in {tls_conn_clear_in(tc[c], engine[c], data, env, nd)} :
         \E n \in {IF Wrote(r) THEN 1 ELSE 0} :
          /\ budget.events + n <= MaxEvents
          /\ Apply(c, "clearIn", r)
          /\ sentq' = IF n = 1 THEN [sentq EXCEPT ![c] = Append(@, data)] ELSE sentq
          /\ budget' = [budget EXCEPT !.events = @ + n]
  /\ UNCHANGED <<wire, finalized>>

ClearIn(c) == ClearInWith(c, EnvsFor(c))

ClearOutWith(c, envs) ==
  /\ \E env \in envs, nd \in BuildsFor(c) :
       \E r \in {tls_conn_clear_out(tc[c], engine[c], env, nd)} :
          /\ Apply(c, "clearOut", r)
          /\ sentq' = IF ~r.abort /\ r.rv > 0 /\ sentq[Peer(c)] # <<>>
                      THEN [sentq EXCEPT ![Peer(c)] = Tail(@)] ELSE sentq
  /\ UNCHANGED <<wire, finalized, budget>>

ClearOut(c) == ClearOutWith(c, EnvsFor(c))

Shutdown(c) ==
  /\ budget.events < MaxEvents
  /\ \E r \in {tls_conn_shutdown(tc[c], engine[c])} : Apply(c, "shutdown", r)
  /\ budget' = [budget EXCEPT !.events = @ + 1]
  /\ UNCHANGED <<wire, finalized, sentq>>

GetError(c) ==
  /\ ApplyQuery(c, tls_conn_get_error(tc[c], engine[c]))
  /\ UNCHANGED <<wire, finalized, budget, sentq>>

ClearError(c) ==
  /\ \E r \in {tls_conn_clear_error(tc[c], engine[c])} : Apply(c, "clearError", r)
  /\ budget' = IF tc[c].error # 0 THEN [budget EXCEPT !.cleared = @ \cup {c}] ELSE budget
  /\ UNCHANGED <<wire, finalized, sentq>>

IsInitFinished(c) ==
  /\ ApplyQuery(c, tls_conn_is_init_finished(tc[c], engine[c]))
  /\ UNCHANGED <<wire, finalized, budget, sentq>>

GetCurrentCipher(c) ==
  /\ ApplyQuery(c, tls_conn_get_current_cipher(tc[c], engine[c]))
  /\ UNCHANGED <<wire, finalized, budget, sentq>>

Next ==
  \E c \in Conns :
    \/ Start(c)
    \/ Close(c)
    \/ Gc(c)
    \/ Inject(c)
    \/ Deliver(c)
    \/ DeliverFault(c)
    \/ Drain(c)
    \/ EncPending(c)
    \/ ClearPending(c)
    \/ ClearIn(c)
    \/ ClearOut(c)
    \/ Shutdown(c)
    \/ GetError(c)
    \/ ClearError(c)
    \/ IsInitFinished(c)
    \/ GetCurrentCipher(c)

Spec == Init /\ [][Next]_vars

(***************************************************************************)
(* A client and a server with compatible contexts, whose caller only       *)
(* drives the handshake, pumps ciphertext both ways and exchanges          *)
(* cleartext, and keeps doing so.                                          *)
(***************************************************************************)
PairStart(c) == StartWith(c, CompatEnvsFor(c))
PairClearIn(c) == ClearInWith(c, CompatEnvsFor(c))
PairClearOut(c) == ClearOutWith(c, CompatEnvsFor(c))

NextPair ==
  \E c \in Conns :
    \/ PairStart(c)
    \/ Drain(c)
    \/ Deliver(c)
    \/ PairClearIn(c)
    \/ PairClearOut(c)

FairPump ==
  \A c \in Conns : WF_vars(PairStart(c)) /\ WF_vars(Drain(c)) /\ WF_vars(Deliver(c))

SpecPair == Init /\ [][NextPair]_vars /\ FairPump

(***************************************************************************)
(* Creation and the queries about the peer certificate, on their own: the  *)
(* objects are created with any flags, one of them has completed a         *)
(* handshake with any outcome of the peer's certificate, and the caller    *)
(* creates objects and asks.                                               *)
(***************************************************************************)
VerifyResults == 0..MaxVerify

\* the engine after a handshake in which the peer's certificate came out so
Established(e, present, verify) ==
  [e EXCEPT !.state = "ok", !.cipher = 1, !.peer_cert = present,
            !.verify_result = verify]

NoCall ==
  [op |-> "none", conn |-> "cli", args |-> <<FALSE, FALSE, FALSE>>,
   out |-> Pushed("nil", "")]

InitCert ==
  /\ \E rc \in BOOLEAN, ru \in BOOLEAN, c0 \in Conns, present \in BOOLEAN,
        verify \in VerifyResults :
       /\ tc = [c \in Conns |-> newCONN(c = "srv", rc, ru).tc]
       /\ engine = [c \in Conns |->
                      IF c = c0
                      THEN Established(newCONN(c = "srv", rc, ru).ssl, present, verify)
                      ELSE newCONN(c = "srv", rc, ru).ssl]
  /\ wire = [c \in Conns |-> <<>>]
  /\ last = NoCall
  /\ crashed = FALSE
  /\ finalized = {}
  /\ budget = [events |-> 0, closes |-> [c \in Conns |-> 0], cleared |-> {}]
  /\ sentq = [c \in Conns |-> <<>>]

VerifyError(c) ==
  /\ Callable(c)
  /\ last' = [NoCall EXCEPT !.op = "verifyError", !.conn = c,
                            !.out = tls_conn_verify_error(tc[c], engine[c])]
  /\ UNCHANGED <<tc, engine, wire, crashed, finalized, budget, sentq>>

\* the caller creates a connection object, which takes the place of c
Create(c) ==
  /\ Callable(c)
  /\ \E is_server \in BOOLEAN, rc \in BOOLEAN, ru \in BOOLEAN :
       \E n \in {newCONN(is_server, rc, ru)} :
         /\ tc' = [tc EXCEPT ![c] = n.tc]
         /\ engine' = [engine EXCEPT ![c] = n.ssl]
         /\ last' = [NoCall EXCEPT !.op = "create", !.conn = c,
                                   !.args = <<is_server, rc, ru>>]
  /\ UNCHANGED <<wire, crashed, finalized, budget, sentq>>

NextCert ==
  \E c \in Conns :
    \/ Create(c)
    \/ VerifyError(c)

SpecCert == InitCert /\ [][NextCert]_vars

\* the digests tried: every length with a few byte patterns, every byte alone
Digest(n, b) == [i \in 1..n |-> (b + 17 * (i - 1)) % 256]
Digests ==
  {Digest(n, b) : n \in 0..EVP_MAX_MD_SIZE, b \in 0..MaxPattern}
    \cup {<<b>> : b \in 0..255}

\* the certificates tried
X509s ==
  [key : {"rsa", "other", "none"}, san : BOOLEAN, eku : BOOLEAN,
   digest_ok : BOOLEAN, md : Digests]

\* the engine after a handshake in which the peer presented certificate x
EstablishedWith(e, x) ==
  [f \in DOMAIN e \cup {"x509"} |->
     IF f = "x509" THEN x ELSE Established(e, TRUE, X509_V_OK)[f]]

InitPeerCert ==
  /\ \E c0 \in Conns, present \in BOOLEAN, x \in X509s :
       /\ tc = [c \in Conns |-> newCONN(c = "srv", TRUE, FALSE).tc]
       /\ engine = [c \in Conns |->
                      IF c = c0 /\ present
                      THEN EstablishedWith(newCONN(c = "srv", TRUE, FALSE).ssl, x)
                      ELSE Established(newCONN(c = "srv", TRUE, FALSE).ssl, FALSE,
                                       X509_V_OK)]
  /\ wire = [c \in Conns |-> <<>>]
  /\ last = NoCall
  /\ crashed = FALSE
  /\ finalized = {}
  /\ budget = [events |-> 0, closes |-> [c \in Conns |-> 0], cleared |-> {}]
  /\ sentq = [c \in Conns |-> <<>>]

\* releasing a buffer twice, or writing past the end of an array, is undefined:
\* the process dies or goes on
GetPeerCertificate(c) ==
  /\ Callable(c)
  /\ \E dies \in BOOLEAN :
       \E r \in {tls_conn_get_peer_certificate(tc[c], engine[c])} :
         IF /\ dies
            /\ r.kind = "table"
            /\ (r.overflow \/ r.overread \/ \E res \in Resources : r.released[res] > 1)
         THEN /\ crashed' = TRUE
              /\ last' = last
         ELSE /\ crashed' = FALSE
              /\ last' = [NoCall EXCEPT !.op = "getPeerCertificate", !.conn = c,
                                        !.out = r]
  /\ UNCHANGED <<tc, engine, wire, finalized, budget, sentq>>

NextPeerCert == \E c \in Conns : GetPeerCertificate(c)

SpecPeerCert == InitPeerCert /\ [][NextPeerCert]_vars


(***************************************************************************)
(* What the caller can observe, and the steps the properties speak of.     *)
(***************************************************************************)
lastFatalError(c) == tls_conn_get_error(tc[c], engine[c]).rv
lastFatalErrorNext(c) == tls_conn_get_error(tc'[c], engine'[c]).rv

isHandshakeComplete(c) ==
  tc[c].ssl # NULL /\ tls_conn_is_init_finished(tc[c], engine[c]).rv = 1
isHandshakeCompleteNext(c) ==
  tc'[c].ssl # NULL /\ tls_conn_is_init_finished(tc'[c], engine'[c]).rv = 1

currentCipher(c) == tls_conn_get_current_cipher(tc[c], engine[c]).rv

\* this step is a call of op on connection c that returned
Returned(c, op) ==
  /\ last'.op = op
  /\ last'.conn = c
  /\ ~crashed'
  /\ <<last, wire, budget>>' # <<last, wire, budget>>

EngineOps == {"start", "clearIn", "clearOut"}

\* C1: after start, writeCleartext or readCleartext met a fatal engine status,
\* lastFatalError() returns that status
C1_FatalStatusRecorded ==
  (last.op \in EngineOps /\ last.fatal /\ ~crashed)
    => lastFatalError(last.conn) = last.rv

\* C2: a cleartext operation whose handshake step left the handshake
\* incomplete returns that step's status and calls neither SSL_write nor SSL_read
C2_NoCryptoBeforeHandshake ==
  (/\ last.op \in {"clearIn", "clearOut"}
   /\ last.calls # <<>>
   /\ last.calls[1] \in {"SSL_accept", "SSL_connect"}
   /\ ~last.stepfin)
    => (Len(last.calls) = 1 /\ last.rv = last.hsrv)

\* C3 as claimed: a drain that directly follows a feed on the same connection
\* returns the bytes that were fed
C3_DrainReturnsFed ==
  [][(/\ last.op = "encIn"
      /\ last.rv >= 0
      /\ tc[last.conn].ssl # NULL
      /\ Returned(last.conn, "encOut"))
       => last'.data = last.data]_vars

\* C3 as amended: a feed appends its bytes, whole and in order, to the incoming
\* buffer and leaves the outgoing buffer alone; a drain returns the front of the
\* outgoing buffer, in order, and leaves the incoming buffer alone
C3_FeedAndDrainKeepToTheirBuffers ==
  [][\A c \in Conns :
       /\ (Returned(c, "encIn") /\ tc[c].ssl # NULL /\ last'.rv >= 0)
            => /\ last'.rv = Len(last'.data)
               /\ tc'[c].bio_read = tc[c].bio_read \o last'.data
               /\ tc'[c].bio_write = tc[c].bio_write
       /\ (Returned(c, "encOut") /\ tc[c].ssl # NULL)
            => /\ tc[c].bio_write = last'.data \o tc'[c].bio_write
               /\ tc'[c].bio_read = tc[c].bio_read]_vars

\* a drain returned bytes while fed bytes were waiting in the incoming buffer
C3_Witness ==
  /\ last.op = "encOut"
  /\ last.data # <<>>
  /\ tc[last.conn].ssl # NULL
  /\ tc[last.conn].bio_read # <<>>
  /\ tc[last.conn].bio_write = <<>>

\* C4: a drain of an empty outgoing buffer returns the count 0 and no bytes and
\* leaves lastError as it was
C4_EmptyDrainReturnsZero ==
  [][\A c \in Conns :
       (Returned(c, "encOut") /\ tc[c].ssl # NULL /\ tc[c].bio_write = <<>>)
         => /\ last'.rv = 0
            /\ last'.data = <<>>
            /\ lastFatalErrorNext(c) = lastFatalError(c)]_vars

\* C5: lastError goes from none to a code only in a call that took a fatal
\* branch, goes back to none only in clearFatalError, and stays none through
\* every later call that does not take a fatal branch
C5_LastErrorSticky ==
  [][\A c \in Conns :
       /\ (lastFatalError(c) = 0 /\ lastFatalErrorNext(c) # 0)
            => (last'.conn = c /\ last'.fatal)
       /\ (lastFatalError(c) # 0 /\ lastFatalErrorNext(c) = 0)
            => (last'.conn = c /\ last'.op = "clearError")
       /\ (lastFatalError(c) # 0 /\ lastFatalErrorNext(c) # 0)
            => lastFatalErrorNext(c) = lastFatalError(c) \/ last'.fatal
       /\ (c \in budget.cleared /\ lastFatalError(c) = 0 /\ ~last'.fatal)
            => lastFatalErrorNext(c) = 0]_vars

\* an error was recorded and cleared, and a later call that was not fatal left
\* lastFatalError() at none
C5_Witness ==
  \E c \in budget.cleared :
    /\ last.conn = c
    /\ last.op \in {"encOut", "encIn", "start"}
    /\ ~last.fatal
    /\ lastFatalError(c) = 0

\* C6: once the handshake is complete on a connection it stays complete until
\* the connection is closed
C6_HandshakeCompletionMonotonic ==
  [][\A c \in Conns :
       (isHandshakeComplete(c) /\ tc'[c].ssl # NULL /\ ~crashed')
         => isHandshakeCompleteNext(c)]_vars

BothComplete == \A c \in Conns : isHandshakeComplete(c)

\* C7: a client and a server with compatible contexts whose caller keeps calling
\* start and pumping ciphertext both ways both complete the handshake in the
\* end, and then report the same cipher
C7_HandshakeCompletesWithOneCipher ==
  /\ <>BothComplete
  /\ [](BothComplete => (currentCipher("cli") = currentCipher("srv")
                          /\ currentCipher("cli") \in Ciphers))

\* both ends are complete on the second cipher, which the server picked
C7_Witness ==
  /\ BothComplete
  /\ currentCipher("cli") = NumCiphers
  /\ currentCipher("srv") = NumCiphers

\* C8: what readCleartext returns is the oldest message the peer wrote and
\* this end has not read yet: the same bytes in the same order, nothing added
C8_CleartextRoundTrip ==
  (last.op = "clearOut" /\ last.rv > 0)
    => (last.data = last.expect /\ last.rv = Len(last.expect))

\* a message of two different bytes came out of readCleartext
C8_Witness ==
  /\ last.op = "clearOut"
  /\ last.rv = 2
  /\ last.data = <<0, 1>>
  /\ BothComplete

\* C9: no handshake is made fatal because of the peer's certificate, whatever
\* the verification policy and whatever the peer presents
C9_CertificateNeverAbortsHandshake ==
  \A c \in Conns : engine[c].reason \notin {CertReason(pc) : pc \in PeerCerts}

\* C10: the engine handle is freed at most once, exactly once by the time the
\* object is finalized, and a close of a closed connection changes nothing
C10_CloseIdempotentFreedOnce ==
  [][\A c \in Conns :
       /\ engine'[c].freed <= 1
       /\ c \in finalized' => engine'[c].freed = 1
       /\ (Returned(c, "close") /\ tc[c].ssl = NULL)
            => (tc'[c] = tc[c] /\ engine'[c] = engine[c])
       /\ (Returned(c, "gc") /\ tc[c].ssl = NULL)
            => (tc'[c] = tc[c] /\ engine'[c] = engine[c])]_vars

\* a connection was closed twice and then finalized
C10_Witness ==
  \E c \in finalized :
    /\ budget.closes[c] >= 2
    /\ engine[c].freed = 1
    /\ last.op = "gc"

\* the verification results the switch of verifyError names
Taxonomy ==
  {X509_V_ERR_CERT_SIGNATURE_FAILURE, X509_V_ERR_CERT_HAS_EXPIRED,
   X509_V_ERR_CERT_UNTRUSTED, X509_V_ERR_UNABLE_TO_GET_ISSUER_CERT,
   X509_V_ERR_UNABLE_TO_GET_CRL, X509_V_ERR_UNABLE_TO_DECRYPT_CERT_SIGNATURE,
   X509_V_ERR_UNABLE_TO_DECRYPT_CRL_SIGNATURE, X509_V_ERR_UNABLE_TO_DECODE_ISSUER_PUBLIC_KEY,
   X509_V_ERR_CRL_SIGNATURE_FAILURE, X509_V_ERR_CERT_NOT_YET_VALID,
   X509_V_ERR_CRL_NOT_YET_VALID, X509_V_ERR_CRL_HAS_EXPIRED,
   X509_V_ERR_ERROR_IN_CERT_NOT_BEFORE_FIELD, X509_V_ERR_ERROR_IN_CERT_NOT_AFTER_FIELD,
   X509_V_ERR_ERROR_IN_CRL_LAST_UPDATE_FIELD, X509_V_ERR_ERROR_IN_CRL_NEXT_UPDATE_FIELD,
   X509_V_ERR_OUT_OF_MEM, X509_V_ERR_DEPTH_ZERO_SELF_SIGNED_CERT,
   X509_V_ERR_SELF_SIGNED_CERT_IN_CHAIN, X509_V_ERR_UNABLE_TO_GET_ISSUER_CERT_LOCALLY,
   X509_V_ERR_UNABLE_TO_VERIFY_LEAF_SIGNATURE, X509_V_ERR_CERT_CHAIN_TOO_LONG,
   X509_V_ERR_CERT_REVOKED, X509_V_ERR_INVALID_CA,
   X509_V_ERR_PATH_LENGTH_EXCEEDED, X509_V_ERR_INVALID_PURPOSE,
   X509_V_ERR_CERT_REJECTED}

\* C11: verificationOutcome() is "no peer certificate" whenever there is none;
\* otherwise nil exactly for X509_V_OK, a fixed name of its own for every code
\* of the taxonomy, and the library's description for every other code
C11_VerifyErrorTotal ==
  last.op = "verifyError" =>
    LET e == engine[last.conn]
        t == tc[last.conn]
        v == e.verify_result
    IN IF ~e.peer_cert
       THEN last.out = Pushed("string", "Unable to get peer certificate")
       ELSE /\ (last.out.kind = "nil") = (v = X509_V_OK)
            /\ v \in Taxonomy =>
                 /\ last.out.kind = "string"
                 /\ last.out.lib = -1
                 /\ \A w \in Taxonomy \ {v} :
                      tls_conn_verify_error(t, [e EXCEPT !.verify_result = w]).text
                        # last.out.text
            /\ v \notin Taxonomy \cup {X509_V_OK} =>
                 last.out = X509_verify_cert_error_string(v)

\* the outcome of an expired certificate was asked for and named
C11_Witness ==
  /\ last.op = "verifyError"
  /\ engine[last.conn].peer_cert
  /\ engine[last.conn].verify_result = X509_V_ERR_CERT_HAS_EXPIRED
  /\ last.out = Pushed("string", "CERT_HAS_EXPIRED")

\* C12: the verify mode is None for a client and for a server that does not
\* request a certificate, RequestPeerCert for a server that requests one, with
\* RejectUnauthenticatedPeer added when it also rejects; the role selects the
\* accept or the connect state
C12_VerifyModeTable ==
  last.op = "create" =>
    LET is_server == last.args[1]
        requestCert == last.args[2]
        rejectUnauthorized == last.args[3]
        e == engine[last.conn]
    IN /\ (~is_server \/ ~requestCert) => e.verify_mode = SSL_VERIFY_NONE
       /\ (is_server /\ requestCert /\ ~rejectUnauthorized)
            => e.verify_mode = SSL_VERIFY_PEER
       /\ (is_server /\ requestCert /\ rejectUnauthorized)
            => e.verify_mode = SSL_VERIFY_PEER + SSL_VERIFY_FAIL_IF_NO_PEER_CERT
       /\ e = (IF is_server THEN SSL_set_accept_state(e) ELSE SSL_set_connect_state(e))
       /\ tc[last.conn].is_server = is_server

\* a client was created with both flags set and verifies nothing
C12_Witness ==
  /\ last.op = "create"
  /\ last.args = <<FALSE, TRUE, TRUE>>
  /\ engine[last.conn].verify_mode = SSL_VERIFY_NONE
  /\ ~engine[last.conn].server

\* C13: start on an incomplete handshake makes exactly one engine step, accept
\* for a server and connect for a client, and returns that step's status as the
\* engine gave it; start on a complete handshake makes no engine step, changes
\* nothing and returns 0
C13_StartOneRawStep ==
  [][\A c \in Conns :
       (Returned(c, "start") /\ tc[c].ssl # NULL) =>
         IF ~isHandshakeComplete(c)
         THEN \E env \in EnvsFor(c) :
                \E h \in {IF tc[c].is_server
                           THEN SSL_accept(engine[c], tc[c].bio_read, tc[c].bio_write, env)
                           ELSE SSL_connect(engine[c], tc[c].bio_read, tc[c].bio_write, env)} :
                  /\ last'.calls = <<IF tc[c].is_server THEN "SSL_accept" ELSE "SSL_connect">>
                  /\ last'.rv = h.rv
                  /\ engine'[c] = h.ssl
                  /\ tc'[c] = [tc[c] EXCEPT !.bio_read = h.rbio, !.bio_write = h.wbio]
         ELSE /\ last'.calls = <<>>
              /\ last'.rv = 0
              /\ tc'[c] = tc[c]
              /\ engine'[c] = engine[c]]_vars

\* a server's start met a transient condition and returned the raw -1
C13_Witness ==
  /\ last.op = "start"
  /\ last.calls = <<"SSL_accept">>
  /\ last.rv = -1
  /\ ~last.fatal
  /\ ~isHandshakeComplete(last.conn)

TransientOps == {"start", "encIn", "encOut", "clearIn", "clearOut"}

\* C14: when start, feed, drain, writeCleartext or readCleartext meets a
\* transient condition (the engine or the buffer wants more input or wants its
\* output flushed), lastError and the role stay as they were, the engine handle
\* is kept and the connection can be called again
C14_TransientLeavesConnectionUsable ==
  [][\A c \in Conns :
       (/\ tc[c].ssl # NULL
        /\ last'.op \in TransientOps
        /\ Returned(c, last'.op)
        /\ last'.rv < 0
        /\ ~last'.fatal)
         => /\ lastFatalErrorNext(c) = lastFatalError(c)
            /\ tc'[c].is_server = tc[c].is_server
            /\ engine'[c].server = engine[c].server
            /\ tc'[c].ssl = tc[c].ssl
            /\ engine'[c].freed = 0
            /\ c \notin finalized']_vars

\* the client, whose handshake got through its transient statuses to
\* completion, reads cleartext and is told to wait for more input
C14_Witness ==
  /\ last.op = "clearOut"
  /\ last.conn = "cli"
  /\ last.rv < 0
  /\ ~last.fatal
  /\ ~crashed
  /\ isHandshakeComplete("cli")
  /\ lastFatalError("cli") = 0

pendingCiphertext(c) == tls_conn_enc_pending(tc[c], engine[c], NoUB)
pendingPlaintextInput(c) == tls_conn_clear_pending(tc[c], engine[c], NoUB)
pendingCiphertextNext(c) == tls_conn_enc_pending(tc'[c], engine'[c], NoUB)
pendingPlaintextInputNext(c) == tls_conn_clear_pending(tc'[c], engine'[c], NoUB)

\* C15: on a live connection pendingCiphertext() is the number of bytes in the
\* outgoing buffer and pendingPlaintextInput() the number of bytes in the
\* incoming buffer, neither changes the connection or the engine, and a feed of
\* B raises pendingPlaintextInput() by the length of B and leaves
\* pendingCiphertext() as it was
C15_PendingCountsBuffers ==
  [][\A c \in Conns :
       tc[c].ssl # NULL =>
         /\ \E p \in {pendingCiphertext(c)} :
              /\ p.rv = Len(tc[c].bio_write)
              /\ ~p.abort /\ p.tc = tc[c] /\ p.ssl = engine[c]
         /\ \E p \in {pendingPlaintextInput(c)} :
              /\ p.rv = Len(tc[c].bio_read)
              /\ ~p.abort /\ p.tc = tc[c] /\ p.ssl = engine[c]
         /\ (Returned(c, "encIn") /\ last'.rv >= 0)
              => /\ pendingPlaintextInputNext(c).rv
                      = pendingPlaintextInput(c).rv + Len(last'.data)
                 /\ pendingCiphertextNext(c).rv = pendingCiphertext(c).rv]_vars

\* bytes were fed to a live connection that has bytes waiting to be drained
C15_Witness ==
  /\ last.op = "encIn"
  /\ last.rv > 0
  /\ ~crashed
  /\ tc[last.conn].ssl # NULL
  /\ tc[last.conn].bio_write # <<>>
  /\ pendingPlaintextInput(last.conn).rv = Len(last.data)
  /\ pendingCiphertext(last.conn).rv > 0

\* C16: every drain of a live connection takes min(pendingCiphertext(), 4096)
\* bytes off the front of the outgoing buffer and returns those bytes and
\* their number, so that successive drains return the whole buffer in order and
\* leave pendingCiphertext() at 0
C16_DrainTakesFront ==
  [][\A c \in Conns :
       (Returned(c, "encOut") /\ tc[c].ssl # NULL)
         => \E n \in {Min(pendingCiphertext(c).rv, POOL)} :
              /\ last'.rv = n
              /\ last'.data = SubSeq(tc[c].bio_write, 1, n)
              /\ tc'[c].bio_write = SubSeq(tc[c].bio_write, n + 1, Len(tc[c].bio_write))
              /\ (n = Len(tc[c].bio_write) => pendingCiphertextNext(c).rv = 0)]_vars

\* the call r on connection c came back, with the connection and the engine
\* as they were
Untouched(c, r) == ~r.abort /\ r.tc = tc[c] /\ r.ssl = engine[c]

\* C17: after close, no call on the connection uses the released handle or
\* its buffers: whatever the build, every one of them comes back and leaves the
\* connection as it is, and a query answers none
C17_ClosedConnectionUnavailable ==
  \A c \in Conns :
    (tc[c].ssl = NULL /\ Callable(c)) =>
      \A ub \in UBs, nd \in Builds :
        /\ Untouched(c, tls_conn_start(tc[c], engine[c], NoEnv, nd))
        /\ Untouched(c, tls_conn_enc_in(tc[c], engine[c], <<BAD>>, TRUE, nd, ub))
        /\ Untouched(c, tls_conn_enc_out(tc[c], engine[c], nd, ub))
        /\ Untouched(c, tls_conn_enc_pending(tc[c], engine[c], ub))
        /\ Untouched(c, tls_conn_clear_pending(tc[c], engine[c], ub))
        /\ Untouched(c, tls_conn_clear_in(tc[c], engine[c], <<1>>, NoEnv, nd))
        /\ Untouched(c, tls_conn_clear_out(tc[c], engine[c], NoEnv, nd))
        /\ Untouched(c, tls_conn_shutdown(tc[c], engine[c]))
        /\ Untouched(c, tls_conn_is_init_finished(tc[c], engine[c]))
        /\ Untouched(c, tls_conn_get_current_cipher(tc[c], engine[c]))
        /\ tls_conn_get_current_cipher(tc[c], engine[c]).rv = 0
        /\ tls_conn_verify_error(tc[c], engine[c])
             = Pushed("string", "Unable to get peer certificate")

UpperHex ==
  <<"0", "1", "2", "3", "4", "5", "6", "7", "8", "9", "A", "B", "C", "D", "E", "F">>

\* C18: the fingerprint of a digest of n bytes is empty for n = 0 and otherwise
\* has 3n-1 characters: for each byte in order its high and its low nibble as
\* uppercase hex digits, a colon between two pairs and none at the end; the
\* rendering writes inside its buffer of 3*EVP_MAX_MD_SIZE characters only
C18_FingerprintRendering ==
  (/\ last.op = "getPeerCertificate"
   /\ last.out.kind = "table"
   /\ X509_of(engine[last.conn]).digest_ok)
    => \E n \in {Len(X509_of(engine[last.conn]).md)} :
         /\ "fingerprint" \in last.out.keys
         /\ ~last.out.overflow
         /\ ~last.out.overread
         /\ \A k \in FingerprintWritten(X509_of(engine[last.conn]).md) : k \in 0..(3 * EVP_MAX_MD_SIZE - 1)
         /\ Len(last.out.fingerprint) = (IF n = 0 THEN 0 ELSE 3 * n - 1)
         /\ \A i \in 1..n :
              /\ last.out.fingerprint[3 * i - 2] = UpperHex[(X509_of(engine[last.conn]).md[i] \div 16) + 1]
              /\ last.out.fingerprint[3 * i - 1] = UpperHex[(X509_of(engine[last.conn]).md[i] % 16) + 1]
              /\ i < n => last.out.fingerprint[3 * i] = ":"

\* the fingerprint of a digest of the greatest length was rendered
C18_Witness ==
  /\ last.op = "getPeerCertificate"
  /\ last.out.kind = "table"
  /\ X509_of(engine[last.conn]).digest_ok
  /\ Len(X509_of(engine[last.conn]).md) = EVP_MAX_MD_SIZE
  /\ Len(last.out.fingerprint) = 3 * EVP_MAX_MD_SIZE - 1
  /\ last.out.fingerprint[1] = "0"
  /\ last.out.fingerprint[2] = "3"
  /\ last.out.fingerprint[3] = ":"

\* C19: a snapshot of a peer certificate gives back each resource it took (the
\* scratch buffer, the certificate, the public key, the RSA key, the EKU
\* stack) exactly once
C19_SnapshotReleasesOnce ==
  (last.op = "getPeerCertificate" /\ last.out.kind = "table")
    => \A res \in Resources : last.out.released[res] = last.out.acquired[res]

\* C20: when a feed meets a buffer fault (a negative status, no retry flag),
\* the assertion in the fatal branch of the buffer classifier holds in every
\* build, so that the call comes back with the status recorded in lastError
\* and returned
C20_BufferFaultRecordedNotAborted ==
  \A c \in Conns :
    (Callable(c) /\ tc[c].ssl # NULL /\ wire[Peer(c)] # <<>>) =>
      \A nd \in Builds :
        \E r \in {tls_conn_enc_in(tc[c], engine[c], wire[Peer(c)], FALSE, nd, NoUB)} :
          /\ r.rv < 0
          /\ r.fatal
          /\ ~r.abort
          /\ tls_conn_get_error(r.tc, r.ssl).rv = r.rv

====
